---- MODULE Spec2Model ----
(***************************************************************************)
(* Model of src/main_upload_data.py: one run of upload_data(filepath,      *)
(* table_name).  The run connects (get_db_engine), fetches the table       *)
(* schema (get_table_schema), reads the CSV as raw text, matches columns,  *)
(* normalises text columns, derives the *_Parsed columns, coerces every    *)
(* column to its declared type and appends the table in one transaction.   *)
(*                                                                         *)
(* Text is a sequence of one-character strings, so that slicing, stripping *)
(* and parsing are computed.  A column name is a sequence of tokens, the   *)
(* token "_Parsed" standing for that literal substring.  A cell value is a *)
(* record [k, s, n]:                                                       *)
(*   k = "str"   raw text s                                                *)
(*   k = "int"   the integer n                                             *)
(*   k = "num"   the float with whole part n and fraction digits s         *)
(*   k = "nan"   the float missing marker NaN                              *)
(*   k = "ts"    the timestamp of ISO date s, at 00:00:00                  *)
(*   k = "nat"   the datetime missing marker NaT                           *)
(*   k = "tsnum" the timestamp of date s seen through pd.to_numeric (its   *)
(*               nanosecond count)                                         *)
(***************************************************************************)
EXTENDS Integers, Sequences, FiniteSets, TLC

\* ------------------------------------------------------------------ bounds
MaxRows == 2
MaxCsvCols == 2
MaxDbCols == 2
\* every modelled row stands for this many identical CSV records
RecordsPerRow == 3000

\* to_sql(..., chunksize=5000)
chunksize == 5000

\* ------------------------------------------------------------------- text
Digits == {"0", "1", "2", "3", "4", "5", "6", "7", "8", "9"}

Whitespace == {" ", "\t", "\n", "\r"}

DigitValue(c) ==
    CASE c = "0" -> 0 [] c = "1" -> 1 [] c = "2" -> 2 [] c = "3" -> 3
      [] c = "4" -> 4 [] c = "5" -> 5 [] c = "6" -> 6 [] c = "7" -> 7
      [] c = "8" -> 8 [] c = "9" -> 9

TxtEmpty == << >>
TxtNULL == <<"N", "U", "L", "L">>
TxtLowerNull == <<"n", "u", "l", "l">>
TxtNaN == <<"N", "a", "N">>
TxtLowerNan == <<"n", "a", "n">>
TxtZero == <<"0">>
Txt12 == <<"1", "2">>
Txt1p5 == <<"1", ".", "5">>
TxtMoney == <<"$", "1", ",", "2", "3", "4", ".", "5", "0">>
TxtDate == <<"2", "0", "2", "4", "-", "0", "1", "-", "0", "1", " ", "U", "T", "C">>
TxtSentinelDate == <<"1", "9", "0", "0", "-", "0", "1", "-", "0", "1">>

\* the raw field texts a CSV record may hold, in a fixed order
TextOrder == <<TxtEmpty, TxtNULL, Txt12, Txt1p5, TxtMoney, TxtDate>>

\* ----------------------------------------------------------------- values
Str(s) == [k |-> "str", s |-> s, n |-> 0]
IntV(n) == [k |-> "int", s |-> << >>, n |-> n]
Num(n, frac) == [k |-> "num", s |-> frac, n |-> n]
NaN == [k |-> "nan", s |-> << >>, n |-> 0]
NaT == [k |-> "nat", s |-> << >>, n |-> 0]
Ts(date) == [k |-> "ts", s |-> date, n |-> 0]
TsNum(date) == [k |-> "tsnum", s |-> date, n |-> 0]

\* pd.Timestamp('1900-01-01 00:00:00')
DefaultDate == Ts(TxtSentinelDate)

MapSeq(F(_), seq) == [i \in 1..Len(seq) |-> F(seq[i])]

\* str.strip()
RECURSIVE LStrip(_)
LStrip(s) == IF s # << >> /\ Head(s) \in Whitespace THEN LStrip(Tail(s)) ELSE s

RECURSIVE RStrip(_)
RStrip(s) ==
    IF s # << >> /\ s[Len(s)] \in Whitespace
    THEN RStrip(SubSeq(s, 1, Len(s) - 1))
    ELSE s

Strip(s) == RStrip(LStrip(s))

\* str[:-4]
DropLast4(s) == IF Len(s) > 4 THEN SubSeq(s, 1, Len(s) - 4) ELSE << >>

\* str.replace(c, '', regex=False)
RemoveChar(s, c) == SelectSeq(s, LAMBDA x : x # c)

RECURSIVE DigitsToNat(_)
DigitsToNat(ds) ==
    IF ds = << >> THEN 0
    ELSE 10 * DigitsToNat(SubSeq(ds, 1, Len(ds) - 1)) + DigitValue(ds[Len(ds)])

RECURSIVE DropTrailingZeros(_)
DropTrailingZeros(ds) ==
    IF ds # << >> /\ ds[Len(ds)] = "0"
    THEN DropTrailingZeros(SubSeq(ds, 1, Len(ds) - 1))
    ELSE ds

\* the text is an unsigned decimal literal: digits with at most one point
IsNumberText(s) ==
    /\ \A i \in 1..Len(s) : s[i] \in Digits \cup {"."}
    /\ Cardinality({i \in 1..Len(s) : s[i] = "."}) <= 1
    /\ \E i \in 1..Len(s) : s[i] \in Digits

PointAt(s) ==
    IF \E i \in 1..Len(s) : s[i] = "."
    THEN CHOOSE i \in 1..Len(s) : s[i] = "."
    ELSE Len(s) + 1

ParseNumber(s) ==
    Num(DigitsToNat(SubSeq(s, 1, PointAt(s) - 1)),
        DropTrailingZeros(SubSeq(s, PointAt(s) + 1, Len(s))))

\* pd.to_numeric(..., errors='coerce') on one element
ToNumeric(v) ==
    CASE v.k = "str" -> IF IsNumberText(v.s) THEN ParseNumber(v.s) ELSE NaN
      [] v.k = "ts" -> TsNum(v.s)
      [] OTHER -> v

\* YYYY-MM-DD, optionally followed by a zone name
IsIsoDate(s) ==
    /\ Len(s) = 10
    /\ \A i \in {1, 2, 3, 4, 6, 7, 9, 10} : s[i] \in Digits
    /\ s[5] = "-" /\ s[8] = "-"

IsDateText(s) ==
    \/ IsIsoDate(s)
    \/ /\ Len(s) = 14
       /\ IsIsoDate(SubSeq(s, 1, 10))
       /\ SubSeq(s, 11, 14) = <<" ", "U", "T", "C">>

\* pd.to_datetime(..., errors='coerce') on one element
ToDatetime(v) ==
    CASE v.k = "str" -> IF IsDateText(v.s) THEN Ts(SubSeq(v.s, 1, 10)) ELSE NaT
      [] OTHER -> v

\* ------------------------------------------------------- names and types
Parsed == "_Parsed"

ColA == <<"A">>
ColAParsed == <<"A", Parsed>>
ColAParsedParsed == <<"A", Parsed, Parsed>>
ColB == <<"B">>

\* the column names of the model, in the order a CSV header lists them
NameOrder == <<ColA, ColAParsed, ColAParsedParsed, ColB>>

Range(seq) == {seq[i] : i \in 1..Len(seq)}

Names == Range(NameOrder)

\* DATA_TYPE values a destination column may declare
Types == {"int", "money", "datetime", "varchar"}

\* 'int' in dtype or 'bigint' in dtype
IntLike(dtype) == dtype \in {"int", "bigint", "smallint", "tinyint"}

\* any(t in dtype for t in ['float', 'decimal', 'numeric', 'money'])
FloatLike(dtype) == dtype \in {"float", "decimal", "numeric", "money", "smallmoney"}

\* 'date' in dtype or 'time' in dtype
DateLike(dtype) ==
    dtype \in {"date", "time", "datetime", "datetime2", "smalldatetime",
               "datetimeoffset", "timestamp"}

\* any(t in dtype for t in text_type_markers)
TextLike(dtype) ==
    dtype \in {"char", "nchar", "varchar", "nvarchar", "text", "ntext", "xml",
               "uniqueidentifier"}

\* db_col.endswith('_Parsed')
EndsWithParsed(col) == Len(col) > 0 /\ col[Len(col)] = Parsed

\* faulty variant of SourceCol: only the suffix is removed
SourceColSuffixOnly(db_col) == SubSeq(db_col, 1, Len(db_col) - 1)

\* db_col.replace('_Parsed', ''): every occurrence is removed
SourceCol(db_col) == SelectSeq(db_col, LAMBDA t : t # Parsed)

\* ------------------------------------------------------------ the inputs
\* a header: at least one and at most MaxCsvCols distinct names, in NameOrder
Headers ==
    {SelectSeq(NameOrder, LAMBDA c : c \in S) :
        S \in {T \in SUBSET Names : T # {} /\ Cardinality(T) <= MaxCsvCols}}

\* the rows of a file: every field of a record holds the record's text, and
\* the records come in TextOrder (no stage depends on the position of a row)
RowLists ==
    {[i \in 1..Len(ix) |-> TextOrder[ix[i]]] :
        ix \in {f \in UNION {[1..n -> 1..Len(TextOrder)] : n \in 0..MaxRows} :
                  \A i \in 1..Len(f) : \A j \in 1..Len(f) : i <= j => f[i] <= f[j]}}

\* what INFORMATION_SCHEMA.COLUMNS may hold for the table (no column at all
\* when the table is absent)
Schemas ==
    UNION {[S -> Types] : S \in {T \in SUBSET Names : Cardinality(T) <= MaxDbCols}}

\* ------------------------------------------------------------------- log
Entry(level, msg, cols, dtype) ==
    [level |-> level, msg |-> msg, cols |-> cols, dtype |-> dtype]

Info(msg) == Entry("info", msg, << >>, "")
Error(msg) == Entry("error", msg, << >>, "")

\* ------------------------------------------------------- column matching
\* list(table_schema.keys())
DbColumns(table_schema) == DOMAIN table_schema

\* [col for col in csv_columns if col not in db_columns]
DiscardedColumns(csv_columns, db_columns) ==
    SelectSeq(csv_columns, LAMBDA c : c \notin db_columns)

\* faulty variant of FinalColumns: the header is kept whole
FinalColumnsKeepAll(csv_columns, db_columns) == csv_columns

\* [col for col in csv_columns if col in db_columns]
FinalColumns(csv_columns, db_columns) ==
    SelectSeq(csv_columns, LAMBDA c : c \in db_columns)

\* df[col]: the raw text of a column
RawColumn(frame, col) == MapSeq(Str, frame.rows)

\* df[final_columns].copy()
Filtered(frame, final_columns) ==
    [c \in Range(final_columns) |-> RawColumn(frame, c)]

\* ------------------------------------------------- textual blanks (120-135)
Placeholders == {TxtNULL, TxtLowerNull, TxtNaN, TxtLowerNan}

\* .astype(str).str.strip().replace({'NULL': '', 'null': '', 'NaN': '', 'nan': ''})
NormalizeText(v) ==
    IF Strip(v.s) \in Placeholders THEN Str(TxtEmpty) ELSE Str(Strip(v.s))

NormalizeBlanks(table_schema, filtered) ==
    [c \in DOMAIN filtered |->
        IF c \in DOMAIN table_schema /\ TextLike(table_schema[c])
        THEN MapSeq(NormalizeText, filtered[c])
        ELSE filtered[c]]

\* ------------------------------------------------ derived columns (137-146)
\* if db_col.endswith('_Parsed') ... if source_col in df.columns
IsDerived(db_col, csv_columns) ==
    EndsWithParsed(db_col) /\ SourceCol(db_col) \in Range(csv_columns)

\* pd.to_datetime(text[:-4], errors='coerce'), then fillna(1900-01-01 00:00:00)
ParsedValue(v) ==
    IF ToDatetime(Str(DropLast4(v.s))).k = "nat"
    THEN DefaultDate
    ELSE ToDatetime(Str(DropLast4(v.s)))

DerivedSet(table_schema, csv_columns) ==
    {c \in DbColumns(table_schema) : IsDerived(c, csv_columns)}

Derive(table_schema, frame, filtered) ==
    [c \in DOMAIN filtered \cup DerivedSet(table_schema, frame.columns) |->
        IF IsDerived(c, frame.columns)
        THEN MapSeq(ParsedValue, RawColumn(frame, SourceCol(c)))
        ELSE filtered[c]]

\* ------------------------------------------------ type coercion (148-169)
\* ['', 'NULL', 'null', 'NaN', 'nan']
ZeroTokens == {TxtEmpty} \cup Placeholders

\* faulty variant of ReplaceWithZero: the replacement is lost
ReplaceWithZeroLost(v) == v

\* .replace(['', 'NULL', 'null', 'NaN', 'nan'], '0') on one element
ReplaceWithZero(v) ==
    IF v.k = "str" /\ v.s \in ZeroTokens THEN Str(TxtZero) ELSE v

\* .fillna(0) on one element
FillZero(v) == IF v.k = "nan" THEN Num(0, << >>) ELSE v

\* pd.to_numeric(df_filtered[col], errors='coerce').fillna(0)
NumericOrZero(values) == MapSeq(LAMBDA v : FillZero(ToNumeric(v)), values)

\* .astype('Int64') raises on a float that is not a whole number
CastRaises(values) ==
    \E i \in 1..Len(values) : values[i].k = "num" /\ values[i].s # << >>

\* .astype('Int64') on one element
AsInt64(v) == IF v.k = "num" THEN IntV(v.n) ELSE v

\* df_filtered[col].dtype == 'object'
IsObject(values) == \A i \in 1..Len(values) : values[i].k = "str"

\* lines 154-155; line 154 has assigned the column before line 155 can raise
CoerceInt(values) ==
    IF CastRaises(NumericOrZero(MapSeq(ReplaceWithZero, values)))
    THEN [values |-> MapSeq(ReplaceWithZero, values), raised |-> TRUE]
    ELSE [values |-> MapSeq(AsInt64, NumericOrZero(MapSeq(ReplaceWithZero, values))),
          raised |-> FALSE]

\* faulty variant of StripCurrency: the thousands separators stay
StripCurrencyDollarOnly(v) == Str(RemoveChar(v.s, "$"))

\* .str.replace('$', '', regex=False).str.replace(',', '', regex=False)
StripCurrency(v) == Str(RemoveChar(RemoveChar(v.s, "$"), ","))

\* lines 158-160
CoerceFloat(values) ==
    [values |-> IF IsObject(values)
                THEN MapSeq(LAMBDA v : ToNumeric(StripCurrency(v)), values)
                ELSE MapSeq(ToNumeric, values),
     raised |-> FALSE]

\* lines 162-163
CoerceDate(col, values) ==
    [values |-> IF ~EndsWithParsed(col) THEN MapSeq(ToDatetime, values) ELSE values,
     raised |-> FALSE]

\* .fillna('') on one element
FillEmpty(v) == IF v.k \in {"nan", "nat"} THEN Str(TxtEmpty) ELSE v

\* lines 166-167
CoerceOther(values) ==
    [values |-> IF IsObject(values) THEN MapSeq(FillEmpty, values) ELSE values,
     raised |-> FALSE]

\* the body of the try at lines 151-169, for one column
CoerceColumn(col, dtype, values) ==
    CASE IntLike(dtype) -> CoerceInt(values)
      [] ~IntLike(dtype) /\ FloatLike(dtype) -> CoerceFloat(values)
      [] ~IntLike(dtype) /\ ~FloatLike(dtype) /\ DateLike(dtype) -> CoerceDate(col, values)
      [] OTHER -> CoerceOther(values)

\* for col, dtype in table_schema.items(): if col in df_filtered.columns
CoerceAll(table_schema, filtered) ==
    [c \in DOMAIN filtered |->
        IF c \in DOMAIN table_schema
        THEN CoerceColumn(c, table_schema[c], filtered[c]).values
        ELSE filtered[c]]

\* logging.warning(f"Could not coerce column '{col}' to match DB type '{dtype}': {e}")
CoerceWarnings(table_schema, filtered) ==
    {Entry("warning", "could_not_coerce", <<c>>, table_schema[c]) :
        c \in {d \in DOMAIN filtered \cap DOMAIN table_schema :
                 CoerceColumn(d, table_schema[d], filtered[d]).raised}}

\* ------------------------------------------------------ upload (171-180)
\* len(df_filtered)
RecordCount(frame) == Len(frame.rows) * RecordsPerRow

\* the number of INSERT batches to_sql sends
NumChunks(frame) == (RecordCount(frame) + chunksize - 1) \div chunksize

\* the records of batch i
ChunkRecords(frame, i) ==
    IF i * chunksize <= RecordCount(frame)
    THEN chunksize
    ELSE RecordCount(frame) - (i - 1) * chunksize

\* engine.begin(): the transaction is committed when the block ends normally
Committed(in_table, in_transaction) == in_table + in_transaction

\* faulty variant of RolledBack: the batches already sent stay in the table
RolledBackKeepsSent(in_table, in_transaction) == in_table + in_transaction

\* engine.begin(): the transaction is rolled back when the block raises
RolledBack(in_table, in_transaction) == in_table

\* ------------------------------------------------- error handling (89-185)
\* faulty variant of NotSchema: only a failed fetch halts the run
NotSchemaNoneOnly(schema) == schema.none

\* if not table_schema
NotSchema(schema) == schema.none \/ DOMAIN schema.cols = {}

\* faulty variant of Handled: the error is logged and raised again
HandledReraise(exc) == [result |-> "raised", entry |-> Error("unexpected_error")]

\* except FileNotFoundError / except Exception: log and fall off the end
Handled(exc) ==
    [result |-> "returned",
     entry |-> IF exc = "FileNotFoundError"
               THEN Error("file_not_found")
               ELSE Error("unexpected_error")]

\* if not all([db_server, db_database, db_user])
CredentialsMissing(env) == \E key \in DOMAIN env : ~env[key]

Environments == [{"DB_SERVER", "DB_DATABASE", "DB_USER"} -> BOOLEAN]

\* ------------------------------------------------------------------ state
VARIABLES pc, result, table_schema, df, df_filtered, log, sent, pending, appended

vars == <<pc, result, table_schema, df, df_filtered, log, sent, pending, appended>>

NoFrame == [columns |-> << >>, rows |-> << >>]

Init ==
    /\ pc = "get_db_engine"
    /\ result = "running"
    /\ table_schema = [none |-> TRUE, cols |-> << >>]
    /\ df = NoFrame
    /\ df_filtered = << >>
    /\ log = {Info("starting")}
    /\ sent = 0
    /\ pending = 0
    /\ appended = 0

\* an exception reaches the handlers of upload_data (lines 182-185)
Raise(exc, entries) ==
    /\ log' = log \cup entries \cup {Handled(exc).entry}
    /\ result' = Handled(exc).result
    /\ pc' = "done"

\* get_db_engine (lines 23-62), called at line 91
GetDbEngine ==
    /\ pc = "get_db_engine"
    /\ \E env \in Environments, reachable \in BOOLEAN :
        IF CredentialsMissing(env)
        THEN Raise("ValueError", {Error("credentials_missing")})
        ELSE IF ~reachable
        THEN Raise("SQLAlchemyError", {Error("connection_failed")})
        ELSE /\ log' = log \cup {Info("connected")}
             /\ pc' = "get_table_schema"
             /\ UNCHANGED result
    /\ UNCHANGED <<table_schema, df, df_filtered, sent, pending, appended>>

\* lines 94-96, after get_table_schema has returned schema
CheckSchema(schema, entries) ==
    /\ table_schema' = schema
    /\ IF NotSchema(schema)
       THEN /\ log' = log \cup entries \cup {Error("halting_no_schema")}
            /\ result' = "returned"
            /\ pc' = "done"
       ELSE /\ log' = log \cup entries
            /\ pc' = "read_csv"
            /\ UNCHANGED result

\* get_table_schema (lines 64-83), called at line 92, and the check at 94
GetTableSchema ==
    /\ pc = "get_table_schema"
    /\ \/ \E cols \in Schemas :
            CheckSchema([none |-> FALSE, cols |-> cols],
                        IF DOMAIN cols = {}
                        THEN {Info("fetching_schema"), Entry("warning", "table_not_found", << >>, "")}
                        ELSE {Info("fetching_schema")})
       \/ CheckSchema([none |-> TRUE, cols |-> << >>],
                      {Info("fetching_schema"), Error("could_not_fetch_schema")})
    /\ UNCHANGED <<df, df_filtered, sent, pending, appended>>

\* lines 98-146: read the file as text, match its columns, normalise the
\* textual blanks and derive the _Parsed columns
ReadCsv ==
    /\ pc = "read_csv"
    /\ \/ /\ Raise("FileNotFoundError", {Info("reading_csv")})
          /\ UNCHANGED <<df, df_filtered>>
       \/ \E header \in Headers, rows \in RowLists :
            /\ df' = [columns |-> header, rows |-> rows]
            /\ df_filtered' =
                 Derive(table_schema.cols, df',
                        NormalizeBlanks(table_schema.cols,
                            Filtered(df', FinalColumns(header, DbColumns(table_schema.cols)))))
            /\ log' = log \cup {Info("reading_csv"), Info("read_rows")}
                 \cup (IF DiscardedColumns(header, DbColumns(table_schema.cols)) # << >>
                       THEN {Entry("warning", "discarding_columns",
                                   DiscardedColumns(header, DbColumns(table_schema.cols)), "")}
                       ELSE {})
                 \cup {Entry("info", "deriving_column", <<c, SourceCol(c)>>, "") :
                         c \in DerivedSet(table_schema.cols, header)}
            /\ pc' = "coerce"
            /\ UNCHANGED result
    /\ UNCHANGED <<table_schema, sent, pending, appended>>

\* lines 148-172: coerce every column, each in its own try
Coerce ==
    /\ pc = "coerce"
    /\ df_filtered' = CoerceAll(table_schema.cols, df_filtered)
    /\ log' = log \cup CoerceWarnings(table_schema.cols, df_filtered) \cup {Info("uploading")}
    /\ pc' = "upload"
    /\ UNCHANGED <<result, table_schema, df, sent, pending, appended>>

\* line 176: to_sql sends one more batch inside the transaction
UploadChunk ==
    /\ pc = "upload"
    /\ sent < NumChunks(df)
    /\ sent' = sent + 1
    /\ pending' = pending + ChunkRecords(df, sent + 1)
    /\ UNCHANGED <<pc, result, table_schema, df, df_filtered, log, appended>>

\* lines 178-180: a batch raises SQLAlchemyError; engine.begin() rolls back
UploadFails ==
    /\ pc = "upload"
    /\ sent < NumChunks(df)
    /\ appended' = RolledBack(appended, pending)
    /\ pending' = 0
    /\ log' = log \cup {Error("error_during_upload"), Error("rolled_back")}
    /\ result' = "returned"
    /\ pc' = "done"
    /\ UNCHANGED <<table_schema, df, df_filtered, sent>>

\* lines 175-177: every batch was sent; the with block ends and commits
Commit ==
    /\ pc = "upload"
    /\ sent = NumChunks(df)
    /\ appended' = Committed(appended, pending)
    /\ pending' = 0
    /\ log' = log \cup {Info("upload_completed")}
    /\ result' = "returned"
    /\ pc' = "done"
    /\ UNCHANGED <<table_schema, df, df_filtered, sent>>

Next ==
    \/ GetDbEngine
    \/ GetTableSchema
    \/ ReadCsv
    \/ Coerce
    \/ UploadChunk
    \/ UploadFails
    \/ Commit

Spec == Init /\ [][Next]_vars

\* ------------------------------------------------------------ properties
\* the coercion stage is over: the run has reached the upload step
HandedToUpload == Info("uploading") \in log

\* the coercion stage has just ended: df_filtered is the table handed to
\* to_sql, which has sent nothing yet (no later step assigns df_filtered)
AtHandOver == pc = "upload" /\ sent = 0

\* the source columns that are destination columns too
Retained == Range(df.columns) \cap DOMAIN table_schema.cols

\* a log entry of the run names the derivation of column d
DerivationLogged(d) ==
    \E e \in log : e.msg = "deriving_column" /\ Len(e.cols) > 0 /\ e.cols[1] = d

\* the column was overwritten by a _Parsed derivation
Overwritten(c) == c \in DOMAIN df_filtered /\ DerivationLogged(c)

\* a column name minus its _Parsed suffix
Base(d) == SubSeq(d, 1, Len(d) - 1)

\* a column name minus every _Parsed in it
WithoutParsed(d) == SelectSeq(d, LAMBDA t : t # "_Parsed")

\* the placeholder texts of the integer rule
BlankTokens ==
    {<< >>, <<"N", "U", "L", "L">>, <<"n", "u", "l", "l">>, <<"N", "a", "N">>,
     <<"n", "a", "n">>}

\* the text is a run of decimal digits
IsIntegerText(s) == s # << >> /\ \A i \in 1..Len(s) : s[i] \in Digits

\* the decimal a raw field text stands for once its $ and , are removed, or the
\* missing marker
ExpectedDecimal(raw) ==
    CASE raw = Txt12 -> Num(12, << >>)
      [] raw = Txt1p5 -> Num(1, <<"5">>)
      [] raw = TxtMoney -> Num(1234, <<"5">>)
      [] OTHER -> NaN

\* the timestamp parsed from a raw field text without its last 4 characters, or
\* the sentinel 1900-01-01 00:00:00
ExpectedParsed(raw) ==
    IF raw = TxtDate
    THEN Ts(<<"2", "0", "2", "4", "-", "0", "1", "-", "0", "1">>)
    ELSE Ts(<<"1", "9", "0", "0", "-", "0", "1", "-", "0", "1">>)

\* the coercion of column c was given up with a warning naming c and dtype
CoerceWarned(c, dtype) ==
    Entry("warning", "could_not_coerce", <<c>>, dtype) \in log

\* C1: a source column that is no destination column is never in the table
\* handed to the upload step, and the discard warning of the run names it.
C1_DiscardedNeverUploaded ==
    Info("read_rows") \in log =>
        \A c \in Range(df.columns) :
            c \notin DOMAIN table_schema.cols =>
                /\ c \notin DOMAIN df_filtered
                /\ \E e \in log :
                     /\ e.level = "warning"
                     /\ e.msg = "discarding_columns"
                     /\ c \in Range(e.cols)

\* C1 witness: a table reached the upload step from a file with a column the
\* destination lacks and a column it has.
C1_Witness ==
    /\ AtHandOver
    /\ \E c \in Range(df.columns) : c \notin DOMAIN table_schema.cols
    /\ \E c \in Range(df.columns) : c \in DOMAIN df_filtered
    /\ Len(df.rows) > 0

\* C2: after coercion every value of a retained integer-like column is an
\* integer, and it is 0 for a blank, a placeholder token or any text that is
\* not an integer literal.  (Stated for the retained columns that no _Parsed
\* derivation overwrote.)
C2_IntegerColumnsHoldIntegers ==
    AtHandOver =>
        \A c \in Retained :
            (IntLike(table_schema.cols[c]) /\ ~Overwritten(c)) =>
                \A i \in 1..Len(df.rows) :
                    /\ df_filtered[c][i].k = "int"
                    /\ df.rows[i] \in BlankTokens => df_filtered[c][i].n = 0
                    /\ ~IsIntegerText(df.rows[i]) => df_filtered[c][i].n = 0

\* C3: a destination column X_Parsed whose X is a source column holds, in every
\* row, the date parsed from X's raw text without its last 4 characters, or the
\* sentinel.  (Stated for the destination columns of a date/time type.)
C3_ParsedColumnFromSource ==
    AtHandOver =>
        \A d \in DOMAIN table_schema.cols :
            (/\ EndsWithParsed(d)
             /\ DateLike(table_schema.cols[d])
             /\ Base(d) \in Range(df.columns)) =>
                /\ d \in DOMAIN df_filtered
                /\ \A i \in 1..Len(df.rows) :
                     df_filtered[d][i] = ExpectedParsed(df.rows[i])

\* C4: the run ends with all the records of the coerced table appended or with
\* none; nothing is appended before the end; after a failed batch the earlier
\* batches are gone, the rollback is logged and no batch is sent again.
C4_UploadAtomic ==
    /\ pc # "done" => appended = 0
    /\ sent <= NumChunks(df)
    /\ (pc = "done" /\ HandedToUpload) =>
         /\ pending = 0
         /\ appended \in {0, RecordCount(df)}
         /\ appended = RecordCount(df) <=> Info("upload_completed") \in log
         /\ Info("upload_completed") \notin log =>
              /\ Error("rolled_back") \in log
              /\ Error("error_during_upload") \in log
              /\ appended = 0

\* C4 witness: the second batch of a two-batch upload failed.
C4_Witness ==
    /\ pc = "done"
    /\ Error("rolled_back") \in log
    /\ DOMAIN df_filtered # {}
    /\ NumChunks(df) >= 2
    /\ sent >= 1
    /\ appended = 0

\* C5: once the schema fetch has failed or found no column, the run is over:
\* the halt is logged, the file was never read, no column was matched or
\* coerced, nothing was sent or appended.
C5_NoSchemaHalts ==
    (Info("fetching_schema") \in log
       /\ (table_schema.none \/ DOMAIN table_schema.cols = {})) =>
        /\ pc = "done"
        /\ result = "returned"
        /\ Error("halting_no_schema") \in log
        /\ Info("reading_csv") \notin log
        /\ df = NoFrame
        /\ df_filtered = << >>
        /\ ~HandedToUpload
        /\ sent = 0 /\ pending = 0 /\ appended = 0

\* C5 witness: the table has no column in the schema namespace.
C5_Witness ==
    /\ pc = "done"
    /\ ~table_schema.none
    /\ DOMAIN table_schema.cols = {}
    /\ Entry("warning", "table_not_found", << >>, "") \in log

\* the connection could not be made: credentials missing or database unreachable
EngineFailed ==
    Error("credentials_missing") \in log \/ Error("connection_failed") \in log

\* C6 as claimed: a connectivity or configuration error leaves upload_data as
\* a raised error, with no file read and no row written.
C6_ConnectivityErrorRaised ==
    EngineFailed =>
        /\ result = "raised"
        /\ Info("reading_csv") \notin log
        /\ appended = 0

\* C6 as amended: the error raised by get_db_engine is caught in upload_data,
\* logged as an unexpected error, and upload_data returns normally; no file
\* was read and no row written.
C6_ConnectivityErrorCaught ==
    EngineFailed =>
        /\ pc = "done"
        /\ result = "returned"
        /\ Error("unexpected_error") \in log
        /\ Info("fetching_schema") \notin log
        /\ Info("reading_csv") \notin log
        /\ df = NoFrame
        /\ df_filtered = << >>
        /\ sent = 0 /\ pending = 0 /\ appended = 0

\* C6 witness: the database was unreachable.
C6_Witness == pc = "done" /\ Error("connection_failed") \in log

C8_DecimalColumnsParsed ==
    AtHandOver =>
        \A c \in Retained :
            (FloatLike(table_schema.cols[c]) /\ ~IntLike(table_schema.cols[c])) =>
                \A i \in 1..Len(df.rows) :
                    df_filtered[c][i] = ExpectedDecimal(df.rows[i])

\* C8 as amended: the same, for the retained decimal-like columns that no
\* _Parsed derivation has overwritten.
C8_DecimalColumnsParsedUnlessDerived ==
    AtHandOver =>
        \A c \in Retained :
            (/\ FloatLike(table_schema.cols[c])
             /\ ~IntLike(table_schema.cols[c])
             /\ ~(EndsWithParsed(c) /\ WithoutParsed(c) \in Range(df.columns))) =>
                \A i \in 1..Len(df.rows) :
                    /\ df_filtered[c][i] = ExpectedDecimal(df.rows[i])
                    /\ df_filtered[c][i].k \in {"num", "nan"}

\* C8 witness: a decimal-like column read "$1,234.50" and a blank.
C8_Witness ==
    /\ AtHandOver
    /\ \E c \in Retained :
         /\ FloatLike(table_schema.cols[c])
         /\ ~EndsWithParsed(c)
         /\ \E i \in 1..Len(df.rows) :
              df.rows[i] = TxtMoney /\ df_filtered[c][i] = Num(1234, <<"5">>)
         /\ \E i \in 1..Len(df.rows) :
              df.rows[i] = << >> /\ df_filtered[c][i] = NaN

\* C9 as claimed: a column X_Parsed is derived only when X is a source column
\* and a destination column.
C9_DerivedOnlyFromReconciledBase ==
    AtHandOver =>
        \A d \in DOMAIN table_schema.cols :
            DerivationLogged(d) => Base(d) \in Retained

\* C9 as amended: a destination column is derived exactly when its name ends
\* in _Parsed and the name left after removing every _Parsed from it is a
\* source column, in the schema or not; otherwise the derivation is skipped
\* and the column is in the table only if the source file has it.
C9_DerivedFromSourceBase ==
    AtHandOver =>
        \A d \in DOMAIN table_schema.cols :
            /\ DerivationLogged(d) <=>
                 (EndsWithParsed(d) /\ WithoutParsed(d) \in Range(df.columns))
            /\ DerivationLogged(d) => d \in DOMAIN df_filtered
            /\ ~DerivationLogged(d) =>
                 (d \in DOMAIN df_filtered <=> d \in Range(df.columns))

\* C9 witness: A_Parsed was derived from the source column A, which the
\* destination lacks.
C9_Witness ==
    /\ AtHandOver
    /\ DerivationLogged(ColAParsed)
    /\ ColA \in Range(df.columns)
    /\ ColA \notin DOMAIN table_schema.cols
    /\ Len(df.rows) > 0

\* C10: in the table handed to the upload step every value of a date/time
\* column is a timestamp (the sentinel included) or the missing marker.
C10_DateColumnsHoldDates ==
    AtHandOver =>
        \A c \in DOMAIN df_filtered :
            DateLike(table_schema.cols[c]) =>
                \A i \in 1..Len(df.rows) : df_filtered[c][i].k \in {"ts", "nat"}

====
